---- MODULE Spec2Model ----
(***************************************************************************)
(* Verification model of the three algorithmic cores of the repository:    *)
(*   - pso_visualization/src/main.rs  (particle swarm optimisation)        *)
(*   - q_l_rl/src/main.rs             (tabular Q-learning on a grid)       *)
(*   - steering_ai/.../src/main.rs    (steering behaviours)                *)
(* Every Bevy system is one action; a system's keyboard, mouse, clock and  *)
(* random inputs are drawn with \E from small sets.                        *)
(***************************************************************************)
EXTENDS Integers, Sequences, FiniteSets, TLC

(***************************************************************************)
(* f32 arithmetic.  Finite values live on an integer grid of magnitude at  *)
(* most FMax (the stand-in for f32::MAX); a result beyond it overflows to  *)
(* an infinity, and 0*inf and inf-inf are NaN, as IEEE-754 has it.         *)
(***************************************************************************)
FMax == 9

PosInf == FMax + 1
NegInf == -(FMax + 1)
NaN == FMax + 2

IsNaN(a) == a = NaN
IsInf(a) == a = PosInf \/ a = NegInf

Sat(n) == IF n > FMax THEN PosInf ELSE IF n < -FMax THEN NegInf ELSE n

FNeg(a) == IF IsNaN(a) THEN NaN ELSE -a

FAdd(a, b) ==
    IF IsNaN(a) \/ IsNaN(b) THEN NaN
    ELSE IF IsInf(a) /\ IsInf(b) THEN (IF a = b THEN a ELSE NaN)
    ELSE IF IsInf(a) THEN a
    ELSE IF IsInf(b) THEN b
    ELSE Sat(a + b)

FSub(a, b) == FAdd(a, FNeg(b))

Sign(n) == IF n > 0 THEN 1 ELSE IF n < 0 THEN -1 ELSE 0

FMul(a, b) ==
    IF IsNaN(a) \/ IsNaN(b) THEN NaN
    ELSE IF IsInf(a) \/ IsInf(b)
         THEN (IF a = 0 \/ b = 0 THEN NaN
               ELSE IF Sign(a) * Sign(b) > 0 THEN PosInf ELSE NegInf)
    ELSE Sat(a * b)

\* n/d rounded to the nearest grid value, ties away from zero (d > 0).
RoundDiv(n, d) ==
    IF n >= 0 THEN (2 * n + d) \div (2 * d) ELSE -((2 * (-n) + d) \div (2 * d))

\* (num/den) * a for a coefficient that is a fraction of the grid unit.
FScale(num, den, a) ==
    IF IsNaN(a) THEN NaN
    ELSE IF IsInf(a) THEN (IF num = 0 THEN NaN ELSE a)
    ELSE Sat(RoundDiv(num * a, den))

\* a < b on f32: false when either side is NaN.
FLt(a, b) == ~IsNaN(a) /\ ~IsNaN(b) /\ a < b

\* f32::clamp: NaN stays NaN.
FClamp(x, lo, hi) ==
    IF IsNaN(x) THEN NaN ELSE IF x < lo THEN lo ELSE IF x > hi THEN hi ELSE x

(***************************************************************************)
(* glam::Vec2                                                              *)
(***************************************************************************)
ZERO == <<0, 0>>
VAdd(u, v) == <<FAdd(u[1], v[1]), FAdd(u[2], v[2])>>
VSub(u, v) == <<FSub(u[1], v[1]), FSub(u[2], v[2])>>
VMul(k, v) == <<FMul(k, v[1]), FMul(k, v[2])>>
VScale(num, den, v) == <<FScale(num, den, v[1]), FScale(num, den, v[2])>>

(***************************************************************************)
(* Distances.  (a - b).length() is kept as its square, which orders the    *)
(* same way; INFINITY is f32::INFINITY and DistNaN the length of a vector  *)
(* with a NaN component.  Positions and targets are finite or NaN.         *)
(***************************************************************************)
PSO_DOMAIN == 2
TargetReach == 4

INFINITY == 2 * (PSO_DOMAIN + TargetReach) * (PSO_DOMAIN + TargetReach) + 1
DistNaN == INFINITY + 1

Length(u, v) ==
    IF IsNaN(u[1]) \/ IsNaN(u[2]) \/ IsNaN(v[1]) \/ IsNaN(v[2]) THEN DistNaN
    ELSE (u[1] - v[1]) * (u[1] - v[1]) + (u[2] - v[2]) * (u[2] - v[2])

DistLt(a, b) == a # DistNaN /\ b # DistNaN /\ a < b

\* 0.7 * 0.7 = 0.49: on the unit grid the squared distances below it are those below 1.
THRESHOLD_SQ == 1

(***************************************************************************)
(* PSO: state                                                              *)
(***************************************************************************)
VARIABLES
    params,       \* PsoParams: population, generations, w (1/20), c1, c2 (1/10)
    particles,    \* Vec<Particle>
    gbest_pos,
    gbest_val,
    current_gen,
    paused,
    converged,
    target,       \* Option<Vec2>
    last,         \* the system that ran last and the path it took
    input,        \* the frame: its keys and click, the systems that have run in
                  \* it, params and paused as the frame found them
    \* Q-learning (q_l_rl)
    env,          \* Environment: map, start, goal
    q_table,      \* HashMap<(State, Action), f64>, values in 1/Q_SCALE
    episode,      \* main's training loop: the episode index
    step_no,      \*   the step index within the episode
    state,        \*   the agent's state
    hp,           \*   the agent's health
    qpc,          \* "training" while main's loop runs, then "trained", "replay"
    lastQ,        \* the last transition the training loop made
    snapshots,    \* Vec<(usize, HashMap)>: the table snapshots
    snapshot_index,
    boundary,     \* the live table as it was at each episode boundary
    progress,     \* LearningProgress
    agent,        \* the replay Agent component, None before setup
    stats,        \* AgentStats
    lastR,        \* the replay system that ran last, the path it took, its rollout
    rolled,       \* the rollout that gave the live agent its path, None before setup
    build,        \* Environment::new: the scatter loop it is in and the draws made
    \* Steering (steering_ai)
    transforms,   \* Transform.translation of every entity
    velocities,   \* Velocity of every entity
    sched,        \* the frame: its number, the systems that have run, its delta
    lastS         \* the system that ran last and the velocities it found

psoVars == <<params, particles, gbest_pos, gbest_val, current_gen, paused,
             converged, target>>
psoAll == <<params, particles, gbest_pos, gbest_val, current_gen, paused,
            converged, target, last, input>>
trainVars == <<env, q_table, episode, step_no, state, hp, lastQ, snapshots,
               snapshot_index, boundary>>
replayVars == <<progress, agent, stats, rolled>>
qVars == <<trainVars, qpc, replayVars, lastR, build>>
steerVars == <<transforms, velocities, sched, lastS>>
vars == <<psoAll, qVars, steerVars>>

None == <<>>

W_DEN == 20
C_DEN == 10
\* gen_range(0.0..1.0) is drawn in units of 1/R_DEN.
R_DEN == 20

\* c * r for a coefficient c (in 1/C_DEN) and a draw r (in 1/R_DEN), on the grid.
Coef(c, r) == RoundDiv(c * r, C_DEN * R_DEN)

\* Sample points of the ranges the random and mouse inputs are drawn from:
\* gen_range(-DOMAIN..DOMAIN) twice, the clicked point of the ground plane (one
\* target on a particle's start, one outside the domain), and gen_range(0.0..1.0).
InitPoints == {<<-PSO_DOMAIN, 0>>, <<-1, -1>>}
Targets == {<<-1, -1>>, <<-1, -(PSO_DOMAIN + 1)>>}
RSample == {0, 19}

\* Parameter values reached from PsoParams::default() = (10, 15, 0.6, 1.8, 2.1)
\* with the J, - and I keys.
MinPopulation == 3
InitGenerations == 3
InitW == {12, 24}

\* The systems of the Update schedule that touch PsoState.
FrameSystems == {"mouse_set_target", "update_ui_sliders", "pso_tick"}

InitPsoWith(gens, ws) ==
    /\ params \in [population : {MinPopulation}, generations : {gens},
                   w : ws, c1 : {18}, c2 : {21}]
    /\ particles = <<>>
    /\ gbest_pos = ZERO
    /\ gbest_val = INFINITY
    /\ current_gen = 0
    /\ paused = TRUE
    /\ converged = FALSE
    /\ target = None
    /\ last = [sys |-> "main", path |-> "init"]
    /\ input = [keys |-> {}, click |-> None, ran |-> FrameSystems,
                params |-> params, paused |-> paused]

InitPso == InitPsoWith(InitGenerations, InitW)

(***************************************************************************)
(* init_population                                                         *)
(***************************************************************************)
NewParticleZeroBest(pos) ==
    [position |-> pos, target_position |-> pos, velocity |-> ZERO,
     pbest_pos |-> ZERO, pbest_val |-> INFINITY]

NewParticle(pos) ==
    [position |-> pos, target_position |-> pos, velocity |-> ZERO,
     pbest_pos |-> pos, pbest_val |-> INFINITY]

init_population(p, draw) == [i \in 1..p.population |-> NewParticle(draw[i])]

(***************************************************************************)
(* mouse_set_target: click is the clicked ground point, points the sample  *)
(* the new population is drawn from.                                       *)
(***************************************************************************)
mouse_set_target(click, points) ==
    \E draw \in [1..params.population -> points] :
        /\ target' = click
        /\ paused' = TRUE
        /\ converged' = FALSE
        /\ current_gen' = 0
        /\ gbest_val' = INFINITY
        /\ particles' = init_population(params, draw)
        /\ UNCHANGED <<params, gbest_pos>>
        /\ last' = [sys |-> "mouse_set_target", path |-> "set"]

(***************************************************************************)
(* pso_tick                                                                *)
(***************************************************************************)
TickReturnsEarlyNoTarget == target = None

\* The early return: no target, or converged.
TickReturnsEarly == target = None \/ converged

UpdatePbestAlways(part, goal) ==
    [part EXCEPT !.pbest_pos = part.target_position,
                 !.pbest_val = Length(part.target_position, goal)]

\* Phase 1, one particle: the personal best.
UpdatePbest(part, goal) ==
    LET dist == Length(part.target_position, goal)
    IN IF DistLt(dist, part.pbest_val)
       THEN [part EXCEPT !.pbest_pos = part.target_position, !.pbest_val = dist]
       ELSE part

\* The running best seeded with the stored global best instead of +inf.
RECURSIVE GlobalBestKept(_, _, _)
GlobalBestKept(ps, goal, n) ==
    IF n = 0 THEN <<gbest_val, gbest_pos>>
    ELSE LET prev == GlobalBestKept(ps, goal, n - 1)
             dist == Length(ps[n].target_position, goal)
         IN IF DistLt(dist, prev[1]) THEN <<dist, ps[n].target_position>> ELSE prev

\* Phase 1, the running global best over particles 1..n: <<value, position>>.
RECURSIVE GlobalBest(_, _, _)
GlobalBest(ps, goal, n) ==
    IF n = 0 THEN <<INFINITY, ZERO>>
    ELSE LET prev == GlobalBest(ps, goal, n - 1)
             dist == Length(ps[n].target_position, goal)
         IN IF DistLt(dist, prev[1]) THEN <<dist, ps[n].target_position>> ELSE prev

\* Phase 2, one particle, with its two draws r1 and r2.
MoveParticle(part, p, global_best_pos, r1, r2) ==
    LET velocity ==
            VAdd(VAdd(VScale(p.w, W_DEN, part.velocity),
                      VMul(Coef(p.c1, r1), VSub(part.pbest_pos, part.target_position))),
                 VMul(Coef(p.c2, r2), VSub(global_best_pos, part.target_position)))
        sum == VAdd(part.target_position, velocity)
        new_pos == <<FClamp(sum[1], -PSO_DOMAIN, PSO_DOMAIN),
                     FClamp(sum[2], -PSO_DOMAIN, PSO_DOMAIN)>>
    IN [part EXCEPT !.velocity = velocity, !.target_position = new_pos]

ConvergesStrict(gen, p, best_val) ==
    gen > p.generations \/ DistLt(best_val, THRESHOLD_SQ)

Converges(gen, p, best_val) ==
    gen >= p.generations \/ DistLt(best_val, THRESHOLD_SQ)

\* keyG, keyP: G, P just pressed; timer: elapsed_seconds % 0.3 < 0.02; rs: the
\* sample the draws r1, r2 of each particle are taken from.
pso_tick(keyG, keyP, timer, rs) ==
    IF TickReturnsEarly
    THEN /\ UNCHANGED psoVars
         /\ last' = [sys |-> "pso_tick", path |-> "idle"]
    ELSE LET paused1 == IF keyG THEN FALSE ELSE paused
             paused2 == IF keyP THEN ~paused1 ELSE paused1
             advance == keyG \/ (~paused2 /\ timer)
         IN IF ~advance
            THEN /\ paused' = paused2
                 /\ UNCHANGED <<params, particles, gbest_pos, gbest_val,
                                current_gen, converged, target>>
                 /\ last' = [sys |-> "pso_tick", path |-> "wait"]
            ELSE \E best \in {GlobalBest(particles, target, Len(particles))},
                    scored \in {[i \in 1..Len(particles) |->
                                    UpdatePbest(particles[i], target)]},
                    r1 \in [1..Len(particles) -> rs],
                    r2 \in [1..Len(particles) -> rs] :
                       /\ particles' = [i \in 1..Len(particles) |->
                              MoveParticle(scored[i], params, best[2], r1[i], r2[i])]
                       /\ gbest_val' = best[1]
                       /\ gbest_pos' = best[2]
                       /\ current_gen' = current_gen + 1
                       /\ converged' = Converges(current_gen + 1, params, best[1])
                       /\ paused' = IF Converges(current_gen + 1, params, best[1])
                                    THEN TRUE ELSE paused2
                       /\ UNCHANGED <<params, target>>
                       /\ last' = [sys |-> "pso_tick", path |-> "step"]

(***************************************************************************)
(* update_ui_sliders: keys are the keys just pressed, points the sample a  *)
(* new population is drawn from.                                           *)
(***************************************************************************)
Min(a, b) == IF a < b THEN a ELSE b
Max(a, b) == IF a > b THEN a ELSE b

SliderParams(p, keys) ==
    LET g1 == IF "Equals" \in keys THEN [p EXCEPT !.generations = @ + 2] ELSE p
        g2 == IF "Minus" \in keys THEN [g1 EXCEPT !.generations = Max(@ - 2, 0)] ELSE g1
        p1 == IF "U" \in keys THEN [g2 EXCEPT !.population = @ + 1] ELSE g2
        p2 == IF "J" \in keys THEN [p1 EXCEPT !.population = Max(Max(@ - 1, 0), 3)] ELSE p1
        w1 == IF "I" \in keys THEN [p2 EXCEPT !.w = Min(@ + 1, 24)] ELSE p2
        w2 == IF "K" \in keys THEN [w1 EXCEPT !.w = Max(@ - 1, 0)] ELSE w1
        a1 == IF "O" \in keys THEN [w2 EXCEPT !.c1 = @ + 1] ELSE w2
        a2 == IF "L" \in keys THEN [a1 EXCEPT !.c1 = Max(@ - 1, 0)] ELSE a1
        b1 == IF "P" \in keys THEN [a2 EXCEPT !.c2 = @ + 1] ELSE a2
        b2 == IF "Semicolon" \in keys THEN [b1 EXCEPT !.c2 = Max(@ - 1, 0)] ELSE b1
    IN b2

update_ui_sliders(keys, points) ==
    /\ params' = SliderParams(params, keys)
    /\ IF "N" \in keys
       THEN /\ paused' = TRUE
            /\ converged' = FALSE
            /\ current_gen' = 0
            /\ gbest_val' = INFINITY
            /\ IF target # None
               THEN \E draw \in [1..params'.population -> points] :
                        particles' = init_population(params', draw)
               ELSE UNCHANGED particles
            /\ UNCHANGED <<gbest_pos, target>>
       ELSE UNCHANGED <<particles, gbest_pos, gbest_val, current_gen, paused,
                        converged, target>>
    /\ last' = [sys |-> "update_ui_sliders",
                path |-> IF "N" \in keys THEN "reset" ELSE "keys"]

(***************************************************************************)
(* Q-learning (q_l_rl): Environment                                        *)
(***************************************************************************)
MAP_SIZE == 4
MAX_EPISODES == 2
MAX_STEPS_PER_EPISODE == 3
MAX_HP == 100

\* Q-values and rewards are held in units of 1/Q_SCALE.
Q_SCALE == 100
\* EPSILON and the draw gen_range(0.0..1.0) are held in units of 1/P_DEN.
P_DEN == 100
EPSILON == 10

Coords == 0..(MAP_SIZE - 1)
States == [x : Coords, y : Coords]

\* Action::all(), in its order.
Action_all == <<"Up", "Down", "Left", "Right">>
Actions == {Action_all[i] : i \in 1..Len(Action_all)}

\* The pass without the test for an Empty cell.
RECURSIVE ScatterOverwriting(_, _, _, _)
ScatterOverwriting(map, draws, cell, n) ==
    IF n = 0 THEN map
    ELSE LET m == ScatterOverwriting(map, draws, cell, n - 1)
             x == draws[n][1]
             y == draws[n][2]
         IN [m EXCEPT ![y][x] = cell]

\* One pass "for _ in 0..n { if map[y][x] == Empty { map[y][x] = cell } }" over
\* the first n draws <<x, y>>.
RECURSIVE Scatter(_, _, _, _)
Scatter(map, draws, cell, n) ==
    IF n = 0 THEN map
    ELSE LET m == Scatter(map, draws, cell, n - 1)
             x == draws[n][1]
             y == draws[n][2]
         IN IF m[y][x] = "Empty" THEN [m EXCEPT ![y][x] = cell] ELSE m

\* Environment::new up to the scatter loops, the goal drawn at <<x, y>> = g.
EnvironmentBase(g) ==
    LET start == [x |-> 0, y |-> 0]
        goal == [x |-> g[1], y |-> g[2]]
        m0 == [y \in Coords |-> [x \in Coords |-> "Empty"]]
        m1 == [m0 EXCEPT ![start.y][start.x] = "Start"]
        m2 == [m1 EXCEPT ![goal.y][goal.x] = "Goal"]
    IN [map |-> m2, start |-> start, goal |-> goal]

\* Environment::new with the generator's draws d: the goal and the draws of the
\* four scatter loops.
Environment_new(d) ==
    LET start == EnvironmentBase(d.goal).start
        goal == EnvironmentBase(d.goal).goal
        m2 == EnvironmentBase(d.goal).map
        m3 == Scatter(m2, d.walls, "Wall", Len(d.walls))
        m4 == Scatter(m3, d.t1, "T1", Len(d.t1))
        m5 == Scatter(m4, d.t2, "T2", Len(d.t2))
        m6 == Scatter(m5, d.t3, "T3", Len(d.t3))
    IN [map |-> m6, start |-> start, goal |-> goal]

get_hp_damage(e, s) ==
    CASE e.map[s.y][s.x] = "T1" -> 25
      [] e.map[s.y][s.x] = "T2" -> 50
      [] e.map[s.y][s.x] = "T3" -> 100
      [] OTHER -> 0

get_reward(e, s, hp_damage) ==
    CASE e.map[s.y][s.x] = "Goal" -> 100 * Q_SCALE
      [] e.map[s.y][s.x] = "Wall" -> -10 * Q_SCALE
      [] e.map[s.y][s.x] = "T1" -> -25 * Q_SCALE
      [] e.map[s.y][s.x] = "T2" -> -50 * Q_SCALE
      [] e.map[s.y][s.x] = "T3" -> -100 * Q_SCALE
      [] OTHER -> -1 * Q_SCALE

is_terminal(e, s, health) == e.map[s.y][s.x] = "Goal" \/ health <= 0

\* The match on the action: the move, kept inside the grid.
Moved(s, action) ==
    CASE action = "Up" -> IF s.y > 0 THEN [s EXCEPT !.y = @ - 1] ELSE s
      [] action = "Down" -> IF s.y < MAP_SIZE - 1 THEN [s EXCEPT !.y = @ + 1] ELSE s
      [] action = "Left" -> IF s.x > 0 THEN [s EXCEPT !.x = @ - 1] ELSE s
      [] action = "Right" -> IF s.x < MAP_SIZE - 1 THEN [s EXCEPT !.x = @ + 1] ELSE s

\* step without the revert on a wall.
StepThroughWalls(e, s, action) ==
    LET moved == Moved(s, action)
        hit_wall == e.map[moved.y][moved.x] = "Wall"
    IN [next_state |-> moved, hp_damage |-> get_hp_damage(e, moved),
        hit_wall |-> hit_wall]

\* Environment::step: (next_state, hp_damage, hit_wall).
step(e, s, action) ==
    LET moved == Moved(s, action)
        hit_wall == e.map[moved.y][moved.x] = "Wall"
        next_state == IF hit_wall THEN s ELSE moved
    IN [next_state |-> next_state, hp_damage |-> get_hp_damage(e, next_state),
        hit_wall |-> hit_wall]

(***************************************************************************)
(* Q-learning: QLearningAgent                                              *)
(***************************************************************************)
\* HashMap::new()
EmptyTable == [k \in {} |-> 0]

\* A lookup that gives a missing pair no default.
LookupWithoutDefault(table, s, action) ==
    IF <<s, action>> \in DOMAIN table THEN table[<<s, action>>] ELSE -1

get_q_value(table, s, action) ==
    IF <<s, action>> \in DOMAIN table THEN table[<<s, action>>] ELSE 0

Insert(table, key, value) ==
    [k \in DOMAIN table \cup {key} |-> IF k = key THEN value ELSE table[k]]

\* The greedy loop with >= in place of >.
RECURSIVE BestActionLast(_, _, _)
BestActionLast(table, s, n) ==
    IF n = 0 THEN <<Action_all[1], get_q_value(table, s, Action_all[1])>>
    ELSE LET prev == BestActionLast(table, s, n - 1)
             q_value == get_q_value(table, s, Action_all[n])
         IN IF q_value >= prev[2] THEN <<Action_all[n], q_value>> ELSE prev

\* The greedy loop over the first n actions: <<best_action, best_value>>.
RECURSIVE BestAction(_, _, _)
BestAction(table, s, n) ==
    IF n = 0 THEN <<Action_all[1], get_q_value(table, s, Action_all[1])>>
    ELSE LET prev == BestAction(table, s, n - 1)
             q_value == get_q_value(table, s, Action_all[n])
         IN IF q_value > prev[2] THEN <<Action_all[n], q_value>> ELSE prev

\* choose_action with the agent's epsilon and the two draws: random_value of
\* gen_range(0.0..1.0), index of gen_range(0..actions.len()).
choose_action(table, epsilon, s, random_value, index) ==
    IF random_value < epsilon
    THEN Action_all[index + 1]
    ELSE BestAction(table, s, Len(Action_all))[1]

\* f64::NEG_INFINITY, below every value of the table.
NEG_INFINITY == -(1000 * Q_SCALE)
FMaxOf(a, b) == IF a > b THEN a ELSE b

\* .map(get_q_value(next_state, a)).fold(NEG_INFINITY, f64::max), first n actions.
RECURSIVE FoldMax(_, _, _)
FoldMax(table, s, n) ==
    IF n = 0 THEN NEG_INFINITY
    ELSE FMaxOf(FoldMax(table, s, n - 1), get_q_value(table, s, Action_all[n]))

\* learning_rate * v and discount_factor * v.
TimesLearningRate(v) == RoundDiv(v, 10)
TimesDiscountFactor(v) == RoundDiv(9 * v, 10)

\* update that bootstraps from the next state whether or not the step ended
\* the episode.
UpdateIgnoringDone(table, s, action, reward, next_state, done) ==
    LET current_q == get_q_value(table, s, action)
        max_next_q == FoldMax(table, next_state, Len(Action_all))
        new_q == current_q
                   + TimesLearningRate(reward + TimesDiscountFactor(max_next_q) - current_q)
    IN Insert(table, <<s, action>>, new_q)

\* QLearningAgent::update: the table after the update.
update(table, s, action, reward, next_state, done) ==
    LET current_q == get_q_value(table, s, action)
        max_next_q == IF done THEN 0
                      ELSE FoldMax(table, next_state, Len(Action_all))
        new_q == current_q
                   + TimesLearningRate(reward + TimesDiscountFactor(max_next_q) - current_q)
    IN Insert(table, <<s, action>>, new_q)

(***************************************************************************)
(* Q-learning: main's training loop                                        *)
(***************************************************************************)
\* Draws of Environment::new.  The goal is drawn from the last three rows and
\* columns; the scatter draws from the whole grid, also onto occupied cells.
GoalLow == MAP_SIZE - 3
EnvDraws ==
    { [goal |-> <<GoalLow, GoalLow>>,
       walls |-> << <<1, 0>>, <<0, 0>>, <<2, 1>> >>,
       t1 |-> << <<2, 2>>, <<1, 0>> >>,
       t2 |-> << <<0, 1>> >>,
       t3 |-> << <<0, 2>>, <<GoalLow, GoalLow>> >>],
      [goal |-> <<MAP_SIZE - 1, GoalLow + 1>>,
       walls |-> << <<0, 1>>, <<2, 2>> >>,
       t1 |-> << <<1, 0>>, <<1, 1>> >>,
       t2 |-> << <<2, 0>> >>,
       t3 |-> << <<2, 0>>, <<1, 2>> >>] }

\* Samples of the two draws of choose_action.
RandomValues == {0, 50}
Indexes == 0..(Len(Action_all) - 1)

NoTransition ==
    [episode |-> -1, step |-> -1, state |-> [x |-> 0, y |-> 0], action |-> "Up",
     next_state |-> [x |-> 0, y |-> 0], hp_damage |-> 0, hit_wall |-> FALSE,
     reward |-> 0, done |-> FALSE]

\* snapshot_episodes, on the scale of MAX_EPISODES.
snapshot_episodes == <<0, 1, MAX_EPISODES>>

\* LearningProgress as main inserts it: the last snapshot, epsilon 0.0.
InitialSnapshot == Len(snapshot_episodes) - 1

NoStats ==
    [wall_hits |-> 0, trap_t1_hits |-> 0, trap_t2_hits |-> 0, trap_t3_hits |-> 0,
     reached_goal |-> FALSE, died |-> FALSE, total_steps |-> 0]

\* The numbers of draws of the four scatter loops.
WALL_DRAWS == 3
T1_DRAWS == 2
T2_DRAWS == 1
T3_DRAWS == 2

\* The four loops in their order: <<cell, number of draws>>.
ScatterLoops ==
    <<<<"Wall", WALL_DRAWS>>, <<"T1", T1_DRAWS>>, <<"T2", T2_DRAWS>>, <<"T3", T3_DRAWS>>>>

\* Environment::new has returned: it is past its last loop.
Built == [phase |-> Len(ScatterLoops) + 1, i |-> 0]

InitQWith(draws) ==
    /\ env \in {Environment_new(d) : d \in draws}
    /\ build = Built
    /\ q_table = EmptyTable
    /\ episode = 0
    /\ step_no = 0
    /\ state = env.start
    /\ hp = MAX_HP
    /\ qpc = IF MAX_EPISODES > 0 THEN "training" ELSE "trained"
    /\ lastQ = NoTransition
    /\ snapshots = << <<0, EmptyTable>> >>
    /\ snapshot_index = 1
    /\ boundary = << EmptyTable >>
    /\ progress = [current_snapshot |-> InitialSnapshot, epsilon_for_display |-> 0]
    /\ agent = None
    /\ rolled = None
    /\ stats = NoStats
    /\ lastR = [sys |-> "main", path |-> "init"]

InitQ == InitQWith(EnvDraws)

\* A snapshot that holds the table of the boundary before.
TakeStaleSnapshot(ep, table) == <<ep, boundary[Len(boundary)]>>

\* snapshots.push((episode + 1, agent.q_table.clone()))
TakeSnapshot(ep, table) == <<ep, table>>

\* One iteration of the inner loop, with the end of the episode when the
\* iteration is its last.
TrainStep(random_value, index) ==
    /\ qpc = "training"
    /\ LET action == choose_action(q_table, EPSILON, state, random_value, index)
           r == step(env, state, action)
           hp1 == hp - r.hp_damage
           reward == get_reward(env, r.next_state, r.hp_damage)
           done == is_terminal(env, r.next_state, hp1)
           last_step == done \/ step_no + 1 >= MAX_STEPS_PER_EPISODE
       IN /\ q_table' = update(q_table, state, action, reward, r.next_state, done)
          /\ lastQ' = [episode |-> episode, step |-> step_no, state |-> state,
                       action |-> action, next_state |-> r.next_state,
                       hp_damage |-> r.hp_damage, hit_wall |-> r.hit_wall,
                       reward |-> reward, done |-> done]
          /\ IF last_step
             THEN /\ episode' = episode + 1
                  /\ step_no' = 0
                  /\ state' = env.start
                  /\ hp' = MAX_HP
                  /\ qpc' = IF episode + 1 >= MAX_EPISODES THEN "trained" ELSE "training"
                  /\ boundary' = Append(boundary, q_table')
                  /\ IF /\ snapshot_index < Len(snapshot_episodes)
                        /\ episode + 1 = snapshot_episodes[snapshot_index + 1]
                     THEN /\ snapshots' = Append(snapshots, TakeSnapshot(episode + 1, q_table'))
                          /\ snapshot_index' = snapshot_index + 1
                     ELSE UNCHANGED <<snapshots, snapshot_index>>
             ELSE /\ step_no' = step_no + 1
                  /\ state' = r.next_state
                  /\ hp' = hp1
                  /\ UNCHANGED <<episode, qpc, snapshots, snapshot_index, boundary>>
          /\ UNCHANGED <<env, replayVars, build>>
          /\ lastR' = [sys |-> "main", path |-> "train"]

(***************************************************************************)
(* Q-learning: get_episode_path                                            *)
(***************************************************************************)
\* The safety cap "path.len() > PATH_CAP" of the rollout loop.
PATH_CAP == 3

\* The loop from its tail "if path.len() >= cap" instead of "> cap".
RECURSIVE RolloutLoopCapped(_, _, _, _, _)
RolloutLoopCapped(e, table, epsilon, draws, acc) ==
    LET s == acc.path[Len(acc.path)]
    IN IF is_terminal(e, s, acc.hp) THEN acc
       ELSE LET d == draws[Len(acc.path)]
                action == choose_action(table, epsilon, s, d[1], d[2])
                r == step(e, s, action)
                acc1 == [path |-> Append(acc.path, r.next_state),
                         hp |-> acc.hp - r.hp_damage,
                         hps |-> Append(acc.hps, acc.hp - r.hp_damage),
                         walls |-> Append(acc.walls, r.hit_wall)]
            IN IF is_terminal(e, r.next_state, acc1.hp) THEN acc1
               ELSE IF Len(acc1.path) >= PATH_CAP THEN acc1
               ELSE RolloutLoopCapped(e, table, epsilon, draws, acc1)

\* The loop of get_episode_path.  acc holds path and hp, and for each transition
\* made the health after it (hps) and step's hit_wall (walls); draws[i] is the
\* pair of draws <<gen_range(0.0..1.0), gen_range(0..4)>> of iteration i.
RECURSIVE RolloutLoop(_, _, _, _, _)
RolloutLoop(e, table, epsilon, draws, acc) ==
    LET s == acc.path[Len(acc.path)]
    IN IF is_terminal(e, s, acc.hp) THEN acc
       ELSE LET d == draws[Len(acc.path)]
                action == choose_action(table, epsilon, s, d[1], d[2])
                r == step(e, s, action)
                acc1 == [path |-> Append(acc.path, r.next_state),
                         hp |-> acc.hp - r.hp_damage,
                         hps |-> Append(acc.hps, acc.hp - r.hp_damage),
                         walls |-> Append(acc.walls, r.hit_wall)]
            IN IF is_terminal(e, r.next_state, acc1.hp) THEN acc1
               ELSE IF Len(acc1.path) > PATH_CAP THEN acc1
               ELSE RolloutLoop(e, table, epsilon, draws, acc1)

get_episode_path(e, table, epsilon, draws) ==
    RolloutLoop(e, table, epsilon, draws,
                [path |-> <<e.start>>, hp |-> MAX_HP, hps |-> <<>>, walls |-> <<>>])

\* Samples of the draws of one iteration: one that is greedy under every epsilon
\* of a stage, and two that explore (Down, Right) when epsilon > 0.
RolloutDraws == {<<95, 0>>, <<0, 1>>, <<0, 3>>}
RolloutDrawSeqs == [1..PATH_CAP -> RolloutDraws]

(***************************************************************************)
(* Q-learning: the replay app                                              *)
(***************************************************************************)
\* Animation timers are held in tenths of a second.
NewAgent(path) ==
    [path |-> path, current_index |-> 0, finished |-> FALSE, hp |-> MAX_HP,
     animation_timer |-> 0, animation_type |-> "None"]

\* setup: the rollout on the selected snapshot and the spawn of the agent.
setup(draws) ==
    /\ qpc = "trained"
    /\ \E q_table_clone \in {snapshots[progress.current_snapshot + 1][2]} :
       \E roll \in {get_episode_path(env, q_table_clone,
                                     progress.epsilon_for_display, draws)} :
          /\ agent' = NewAgent(roll.path)
          /\ rolled' = roll
          /\ lastR' = [sys |-> "setup", path |-> "spawn", roll |-> roll,
                       table |-> q_table_clone,
                       epsilon |-> progress.epsilon_for_display]
    /\ qpc' = "replay"
    /\ UNCHANGED <<trainVars, progress, stats, build>>

\* move_agent_system for the one agent; near: distance < 0.1 this frame (always
\* so when the next state of the path is the one the agent stands on).
move_agent_system(near) ==
    /\ qpc = "replay"
    /\ agent # None
    /\ IF agent.finished \/ agent.animation_timer > 0
       THEN /\ UNCHANGED <<agent, stats>>
            /\ lastR' = [sys |-> "move_agent_system", path |-> "skip"]
       ELSE IF agent.hp <= 0
       THEN /\ agent' = [agent EXCEPT !.finished = TRUE, !.animation_type = "Death",
                                      !.animation_timer = 10]
            /\ stats' = [stats EXCEPT !.died = TRUE]
            /\ lastR' = [sys |-> "move_agent_system", path |-> "died"]
       ELSE IF agent.current_index >= Len(agent.path) - 1
       THEN /\ LET here == agent.path[agent.current_index + 1]
               IN IF env.map[here.y][here.x] = "Goal"
                  THEN /\ agent' = [agent EXCEPT !.finished = TRUE,
                                                 !.animation_type = "Goal",
                                                 !.animation_timer = 15]
                       /\ stats' = [stats EXCEPT !.reached_goal = TRUE]
                  ELSE /\ agent' = [agent EXCEPT !.finished = TRUE]
                       /\ UNCHANGED stats
            /\ lastR' = [sys |-> "move_agent_system", path |-> "end"]
       ELSE LET current_state == agent.path[agent.current_index + 1]
                target_state == agent.path[agent.current_index + 2]
                cell == env.map[target_state.y][target_state.x]
            IN IF near \/ current_state = target_state
               THEN /\ IF current_state = target_state
                       THEN /\ agent' = [agent EXCEPT !.animation_type = "WallHit",
                                                      !.animation_timer = 2,
                                                      !.current_index = @ + 1]
                            /\ stats' = [stats EXCEPT !.wall_hits = @ + 1,
                                                      !.total_steps = @ + 1]
                       ELSE CASE cell = "T1" ->
                                 /\ agent' = [agent EXCEPT !.hp = @ - 25,
                                                  !.animation_type = "TrapDamage",
                                                  !.animation_timer = 3,
                                                  !.current_index = @ + 1]
                                 /\ stats' = [stats EXCEPT !.trap_t1_hits = @ + 1,
                                                           !.total_steps = @ + 1]
                              [] cell = "T2" ->
                                 /\ agent' = [agent EXCEPT !.hp = @ - 50,
                                                  !.animation_type = "TrapDamage",
                                                  !.animation_timer = 4,
                                                  !.current_index = @ + 1]
                                 /\ stats' = [stats EXCEPT !.trap_t2_hits = @ + 1,
                                                           !.total_steps = @ + 1]
                              [] cell = "T3" ->
                                 /\ agent' = [agent EXCEPT !.hp = @ - 100,
                                                  !.animation_type = "TrapDamage",
                                                  !.animation_timer = 5,
                                                  !.current_index = @ + 1]
                                 /\ stats' = [stats EXCEPT !.trap_t3_hits = @ + 1,
                                                           !.total_steps = @ + 1]
                              [] OTHER ->
                                 /\ agent' = [agent EXCEPT !.current_index = @ + 1]
                                 /\ stats' = [stats EXCEPT !.total_steps = @ + 1]
                    /\ lastR' = [sys |-> "move_agent_system", path |-> "arrive"]
               ELSE /\ UNCHANGED <<agent, stats>>
                    /\ lastR' = [sys |-> "move_agent_system", path |-> "travel"]
    /\ UNCHANGED <<trainVars, qpc, progress, rolled, build>>

\* animate_agent_system; delta: time.delta_seconds() in tenths.
animate_agent_system(delta) ==
    /\ qpc = "replay"
    /\ agent # None
    /\ IF agent.animation_timer > 0
       THEN agent' = [agent EXCEPT
                         !.animation_timer = @ - delta,
                         !.animation_type = IF agent.animation_timer - delta <= 0
                                            THEN "None" ELSE @]
       ELSE UNCHANGED agent
    /\ lastR' = [sys |-> "animate_agent_system", path |-> "tick"]
    /\ UNCHANGED <<trainVars, qpc, progress, stats, rolled, build>>

Some(x) == <<x>>

\* The epsilon of a stage, in units of 1/P_DEN.
StageEpsilon(stage) ==
    CASE stage = 0 -> 90
      [] stage = 1 -> 70
      [] stage = 2 -> 50
      [] stage = 3 -> 30
      [] stage = 4 -> 20
      [] stage = 5 -> 10
      [] OTHER -> 0

\* Restart that also cuts the path back to its first state.
RestartDroppingPath(a) ==
    [a EXCEPT !.path = <<a.path[1]>>, !.current_index = 0, !.finished = FALSE,
              !.hp = MAX_HP, !.animation_timer = 0, !.animation_type = "None"]

\* Restart that leaves the health as it is.
RestartKeepingHp(a) ==
    [a EXCEPT !.current_index = 0, !.finished = FALSE,
              !.animation_timer = 0, !.animation_type = "None"]

\* The Space branch, on the agent the query yields.
Restart(a) ==
    [a EXCEPT !.current_index = 0, !.finished = FALSE, !.hp = MAX_HP,
              !.animation_timer = 0, !.animation_type = "None"]

\* keyboard_input_system; stage_selected: None or Some(stage) of the digit key just
\* pressed; space: Space just pressed; draws: the draws of the rollout.  The
\* despawn and the spawn are deferred commands: the Space branch still acts on
\* the old agent, which the despawn then removes.
keyboard_input_system(stage_selected, space, draws) ==
    /\ qpc = "replay"
    /\ agent # None
    /\ IF stage_selected # None /\ stage_selected[1] < Len(snapshots)
       THEN \E stage \in {stage_selected[1]} :
            \E q_table_clone \in {snapshots[stage + 1][2]} :
            \E epsilon \in {StageEpsilon(stage)} :
            \E roll \in {get_episode_path(env, q_table_clone, epsilon, draws)} :
               /\ progress' = [current_snapshot |-> stage,
                               epsilon_for_display |-> epsilon]
               /\ stats' = NoStats
               /\ agent' = NewAgent(roll.path)
               /\ rolled' = roll
               /\ lastR' = [sys |-> "keyboard_input_system", path |-> "stage",
                            roll |-> roll, table |-> q_table_clone,
                            epsilon |-> epsilon]
       ELSE /\ UNCHANGED <<progress, rolled>>
            /\ IF space
               THEN /\ stats' = NoStats
                    /\ agent' = Restart(agent)
                    /\ lastR' = [sys |-> "keyboard_input_system", path |-> "restart"]
               ELSE /\ UNCHANGED <<stats, agent>>
                    /\ lastR' = [sys |-> "keyboard_input_system", path |-> "none"]
    /\ UNCHANGED <<trainVars, qpc, build>>

(***************************************************************************)
(* Steering (steering_ai/bevy_steering_ai).  Lengths, speeds and forces    *)
(* are in 1/STEER_SCALE, the frame time in 1/STEER_SCALE of a second.      *)
(* Vec3 is <<x, y, z>>.  A vector that is scaled to a length has its       *)
(* components rounded toward zero, so that on the grid, as in glam's       *)
(* contract for clamp_length_max and normalize, rounding never makes the   *)
(* result longer than the length asked for.                                *)
(***************************************************************************)
STEER_SCALE == 10
Vec3_ZERO == <<0, 0, 0>>

V3Add(u, v) == <<u[1] + v[1], u[2] + v[2], u[3] + v[3]>>
V3Sub(u, v) == <<u[1] - v[1], u[2] - v[2], u[3] - v[3]>>
length_squared(v) == v[1] * v[1] + v[2] * v[2] + v[3] * v[3]

RECURSIVE SqrtSearch(_, _, _)
SqrtSearch(n, lo, hi) ==
    IF lo = hi THEN lo
    ELSE LET mid == (lo + hi + 1) \div 2
         IN  IF mid * mid <= n THEN SqrtSearch(n, mid, hi)
             ELSE SqrtSearch(n, lo, mid - 1)

\* The integer part of the square root of n.
ISqrt(n) == SqrtSearch(n, 0, Min(n, 46340))

\* v * (len / |v|) for a non-zero v: each component toward zero.
ScaleToLength(v, len) ==
    LET l2 == length_squared(v)
        c(i) == Sign(v[i]) * ISqrt(((v[i] * len) * (v[i] * len)) \div l2)
    IN  <<c(1), c(2), c(3)>>

\* v.normalize_or_zero() * len
NormalizeOrZeroTimes(v, len) ==
    IF length_squared(v) = 0 THEN Vec3_ZERO ELSE ScaleToLength(v, len)

\* A clamp of each axis on its own.
ClampEachAxis(v, max) ==
    <<Max(-max, Min(max, v[1])), Max(-max, Min(max, v[2])),
      Max(-max, Min(max, v[3]))>>

\* v.clamp_length_max(max)
clamp_length_max(v, max) ==
    IF length_squared(v) > max * max THEN ScaleToLength(v, max) ELSE v

\* v * delta_seconds
TimesDelta(v, dt) ==
    <<RoundDiv(v[1] * dt, STEER_SCALE), RoundDiv(v[2] * dt, STEER_SCALE),
      RoundDiv(v[3] * dt, STEER_SCALE)>>

PLAYER_SPEED == 5 * STEER_SCALE
DESIRED_SEPARATION == 2 * STEER_SCALE
MAP_BOUNDARY == 12 * STEER_SCALE
PLAYER_Y == STEER_SCALE
NPC_Y == STEER_SCALE \div 2

\* The entities of the scene: the player and the NPCs that steer by a target,
\* with the components setup gives them.
PlayerEntity == 1
SeekNpc == 2
FleeNpc == 3
ArriveNpc == 4
PursuitNpc == 5
EvadeNpc == 6
WanderNpc == 7
Entities == {PlayerEntity, SeekNpc, FleeNpc, ArriveNpc, PursuitNpc, EvadeNpc, WanderNpc}
Player == {PlayerEntity}
Agents == (SeekNpc :> [max_speed |-> 35, max_force |-> 8]) @@
          (FleeNpc :> [max_speed |-> 30, max_force |-> 10]) @@
          (ArriveNpc :> [max_speed |-> 40, max_force |-> 7]) @@
          (PursuitNpc :> [max_speed |-> 42, max_force |-> 9]) @@
          (EvadeNpc :> [max_speed |-> 38, max_force |-> 11]) @@
          (WanderNpc :> [max_speed |-> 15, max_force |-> 3])
Seek == (SeekNpc :> [target |-> PlayerEntity])
Flee == (FleeNpc :> [target |-> PlayerEntity])
Arrive == (ArriveNpc :> [target |-> PlayerEntity, slowing_radius |-> 5 * STEER_SCALE])
Pursuit == (PursuitNpc :> [target |-> PlayerEntity])
Evade == (EvadeNpc :> [target |-> PlayerEntity])
Wander == (WanderNpc :> [circle_distance |-> 3 * STEER_SCALE,
                         circle_radius |-> (3 * STEER_SCALE) \div 2])

\* A lookup that takes the origin for an entity that is gone.
TransformOrOrigin(tr, e) ==
    IF e \in DOMAIN tr THEN <<tr[e]>> ELSE <<Vec3_ZERO>>

\* target_query.get(target) of Query<&Transform>: Ok(translation) or Err.
transform_get(tr, e) ==
    IF e \in DOMAIN tr THEN <<tr[e]>> ELSE None

\* target_query.get(target) of Query<(&Transform, &Velocity), With<Player>>:
\* Ok(<<translation, velocity>>) or Err.
player_get(tr, vel, e) ==
    IF e \in Player /\ e \in DOMAIN vel /\ transform_get(tr, e) # None
    THEN <<(<<transform_get(tr, e)[1], vel[e]>>)>>
    ELSE None

\* The steering vector of seek without its clamp.
SeekUnclamped(position, velocity, target_pos, a) ==
    V3Sub(NormalizeOrZeroTimes(V3Sub(target_pos, position), a.max_speed), velocity)

\* seek_system's steering for one agent.
seek_steering(position, velocity, target_pos, a) ==
    LET desired == V3Sub(target_pos, position)
        desired_velocity == NormalizeOrZeroTimes(desired, a.max_speed)
    IN  clamp_length_max(V3Sub(desired_velocity, velocity), a.max_force)

seek_system(tr, vel) ==
    [e \in DOMAIN vel |->
        IF e \in DOMAIN Agents /\ e \in DOMAIN Seek /\ e \in DOMAIN tr
           /\ transform_get(tr, Seek[e].target) # None
        THEN V3Add(vel[e], seek_steering(tr[e], vel[e],
                              transform_get(tr, Seek[e].target)[1], Agents[e]))
        ELSE vel[e]]

flee_steering(position, velocity, target_pos, a) ==
    LET desired == V3Sub(position, target_pos)
        desired_velocity == NormalizeOrZeroTimes(desired, a.max_speed)
    IN  clamp_length_max(V3Sub(desired_velocity, velocity), a.max_force)

flee_system(tr, vel) ==
    [e \in DOMAIN vel |->
        IF e \in DOMAIN Agents /\ e \in DOMAIN Flee /\ e \in DOMAIN tr
           /\ transform_get(tr, Flee[e].target) # None
        THEN V3Add(vel[e], flee_steering(tr[e], vel[e],
                              transform_get(tr, Flee[e].target)[1], Agents[e]))
        ELSE vel[e]]

\* arrive_system's steering for one agent: inside the slowing radius the
\* desired speed is max_speed * (distance / slowing_radius).
arrive_steering(position, velocity, target_pos, a, slowing_radius) ==
    LET desired == V3Sub(target_pos, position)
        distance2 == length_squared(desired)
        desired_velocity ==
            IF distance2 < slowing_radius * slowing_radius
            THEN NormalizeOrZeroTimes(desired,
                    (a.max_speed * ISqrt(distance2)) \div slowing_radius)
            ELSE NormalizeOrZeroTimes(desired, a.max_speed)
    IN  clamp_length_max(V3Sub(desired_velocity, velocity), a.max_force)

arrive_system(tr, vel) ==
    [e \in DOMAIN vel |->
        IF e \in DOMAIN Agents /\ e \in DOMAIN Arrive /\ e \in DOMAIN tr
           /\ transform_get(tr, Arrive[e].target) # None
        THEN V3Add(vel[e], arrive_steering(tr[e], vel[e],
                              transform_get(tr, Arrive[e].target)[1], Agents[e],
                              Arrive[e].slowing_radius))
        ELSE vel[e]]

\* wander_system: heading is <<cos, 0, sin>> of wander_angle, in units of
\* 1/STEER_SCALE.
wander_system(vel, heading) ==
    [e \in DOMAIN vel |->
        IF e \in DOMAIN Agents /\ e \in DOMAIN Wander
        THEN LET circle_center == NormalizeOrZeroTimes(vel[e], Wander[e].circle_distance)
                 displacement == TimesDelta(heading, Wander[e].circle_radius)
                 wander_force == NormalizeOrZeroTimes(V3Add(circle_center, displacement),
                                                      Agents[e].max_force)
             IN  V3Add(vel[e], wander_force)
        ELSE vel[e]]

\* A prediction that runs ahead by the velocity of the agent itself.
PredictByOwnVelocity(position, velocity, target_pos, target_velocity, a) ==
    LET distance == ISqrt(length_squared(V3Sub(target_pos, position)))
        ahead(i) == RoundDiv(velocity[i] * distance, a.max_speed)
    IN  V3Add(target_pos, <<ahead(1), ahead(2), ahead(3)>>)

\* future_position: the target's translation plus its velocity times
\* prediction_time, which is distance / max_speed.
future_position(position, velocity, target_pos, target_velocity, a) ==
    LET distance == ISqrt(length_squared(V3Sub(target_pos, position)))
        ahead(i) == RoundDiv(target_velocity[i] * distance, a.max_speed)
    IN  V3Add(target_pos, <<ahead(1), ahead(2), ahead(3)>>)

pursuit_steering(position, velocity, target_pos, target_velocity, a) ==
    LET desired == V3Sub(future_position(position, velocity, target_pos,
                                         target_velocity, a), position)
        desired_velocity == NormalizeOrZeroTimes(desired, a.max_speed)
    IN  clamp_length_max(V3Sub(desired_velocity, velocity), a.max_force)

pursuit_system(tr, vel) ==
    [e \in DOMAIN vel |->
        IF e \in DOMAIN Agents /\ e \in DOMAIN Pursuit /\ e \in DOMAIN tr
           /\ e \notin Player /\ player_get(tr, vel, Pursuit[e].target) # None
        THEN LET t == player_get(tr, vel, Pursuit[e].target)[1]
             IN  V3Add(vel[e], pursuit_steering(tr[e], vel[e], t[1], t[2], Agents[e]))
        ELSE vel[e]]

evade_steering(position, velocity, target_pos, target_velocity, a) ==
    LET desired == V3Sub(position, future_position(position, velocity, target_pos,
                                                   target_velocity, a))
        desired_velocity == NormalizeOrZeroTimes(desired, a.max_speed)
    IN  clamp_length_max(V3Sub(desired_velocity, velocity), a.max_force)

evade_system(tr, vel) ==
    [e \in DOMAIN vel |->
        IF e \in DOMAIN Agents /\ e \in DOMAIN Evade /\ e \in DOMAIN tr
           /\ e \notin Player /\ player_get(tr, vel, Evade[e].target) # None
        THEN LET t == player_get(tr, vel, Evade[e].target)[1]
             IN  V3Add(vel[e], evade_steering(tr[e], vel[e], t[1], t[2], Agents[e]))
        ELSE vel[e]]

\* A separation test that takes in the desired distance itself.
SeparatesInclusive(d2) ==
    d2 > 0 /\ d2 <= DESIRED_SEPARATION * DESIRED_SEPARATION

\* distance > 0.0 && distance < DESIRED_SEPARATION, on the squared distance.
Separates(d2) ==
    d2 > 0 /\ d2 < DESIRED_SEPARATION * DESIRED_SEPARATION

\* (t1 - t2).normalize_or_zero() / distance * max_force
SeparationForce(t1, t2, max_force) ==
    LET d == V3Sub(t1, t2)
        d2 == length_squared(d)
        c(i) == RoundDiv(STEER_SCALE * d[i] * max_force, d2)
    IN  <<c(1), c(2), c(3)>>

\* One pair of iter_combinations_mut.
SeparatePair(tr, vel, e1, e2) ==
    IF Separates(length_squared(V3Sub(tr[e1], tr[e2])))
    THEN [vel EXCEPT
            ![e1] = V3Add(@, SeparationForce(tr[e1], tr[e2], Agents[e1].max_force)),
            ![e2] = V3Sub(@, SeparationForce(tr[e1], tr[e2], Agents[e2].max_force))]
    ELSE vel

\* The pairs of agents, each once, in the order of the entity ids.
RECURSIVE SeparatePairs(_, _, _)
SeparatePairs(tr, vel, pairs) ==
    IF pairs = {} THEN vel
    ELSE LET p == CHOOSE q \in pairs :
                    \A r \in pairs : q[1] < r[1] \/ (q[1] = r[1] /\ q[2] <= r[2])
         IN  SeparatePairs(tr, SeparatePair(tr, vel, p[1], p[2]), pairs \ {p})

separation_system(tr, vel) ==
    SeparatePairs(tr, vel,
        {p \in (DOMAIN Agents) \X (DOMAIN Agents) : p[1] < p[2]})

containment_system(tr, vel) ==
    [e \in DOMAIN vel |->
        IF e \notin DOMAIN Agents THEN vel[e]
        ELSE LET a == Agents[e]
                 x == IF tr[e][1] > MAP_BOUNDARY THEN -a.max_speed
                      ELSE IF tr[e][1] < -MAP_BOUNDARY THEN a.max_speed ELSE 0
                 z == IF tr[e][3] > MAP_BOUNDARY THEN -a.max_speed
                      ELSE IF tr[e][3] < -MAP_BOUNDARY THEN a.max_speed ELSE 0
                 desired_change == <<x, 0, z>>
             IN  IF desired_change # Vec3_ZERO
                 THEN V3Add(vel[e],
                        clamp_length_max(V3Sub(desired_change, vel[e]), a.max_force * 2))
                 ELSE vel[e]]

\* movement_system: <<transforms, velocities>> after it.
movement_system(tr, vel, dt) ==
    LET clamped == [e \in DOMAIN vel |->
                      IF e \in DOMAIN Agents
                      THEN clamp_length_max(vel[e], Agents[e].max_speed)
                      ELSE vel[e]]
        moved == [e \in DOMAIN tr |->
                    IF e \in DOMAIN Agents
                    THEN LET p == V3Add(tr[e], TimesDelta(clamped[e], dt))
                         IN  <<p[1], NPC_Y, p[3]>>
                    ELSE tr[e]]
    IN  <<moved, clamped>>

\* player_movement_system: the transforms after it.
player_movement_system(tr, direction, dt) ==
    IF PlayerEntity \notin DOMAIN tr THEN tr
    ELSE LET movement == TimesDelta(NormalizeOrZeroTimes(direction, PLAYER_SPEED), dt)
             p == V3Add(tr[PlayerEntity], movement)
         IN  [tr EXCEPT ![PlayerEntity] = <<p[1], PLAYER_Y, p[3]>>]

\* The behaviors that .chain() orders, in that order.
BehaviorChain == <<"seek_system", "flee_system", "arrive_system", "wander_system",
                   "pursuit_system", "evade_system", "separation_system",
                   "containment_system">>
Systems == {"player_movement_system", "movement_system"} \cup
           {BehaviorChain[i] : i \in 1..Len(BehaviorChain)}

MaxFrames == 2
DeltaSeconds == {1, 5}
Directions == {<<0, 0, 0>>, <<1, 0, -1>>}

\* <<cos, 0, sin>> of the wander angles of the run: the angle setup gives, 0.
WanderHeadings == {<<STEER_SCALE, 0, 0>>}

\* Where the agents stand when the run starts: setup's places, and places by
\* the player that the agents come to as they close in and are pushed about.
PlayerStart == <<0, PLAYER_Y, 0>>
SeekStarts == {<<-100, NPC_Y, -100>>, <<0, NPC_Y, 0>>}
FleeStarts == {<<50, NPC_Y, 50>>, <<1, NPC_Y, 0>>, <<0, NPC_Y, 0>>,
               <<12, NPC_Y, 16>>, <<MAP_BOUNDARY + 5, NPC_Y, 0>>}

\* setup's places of the player and of the NPCs that start where setup puts
\* them in every run.
Spawned == (PlayerEntity :> PlayerStart) @@
           (ArriveNpc :> <<10 * STEER_SCALE, NPC_Y, -10 * STEER_SCALE>>) @@
           (PursuitNpc :> <<15 * STEER_SCALE, NPC_Y, 15 * STEER_SCALE>>) @@
           (EvadeNpc :> <<0, NPC_Y, 10 * STEER_SCALE>>) @@
           (WanderNpc :> <<-10 * STEER_SCALE, NPC_Y, 10 * STEER_SCALE>>)

\* The world holds the entities of `alive`, each at rest.
InitSteerWith(seeks, flees, deltas, alive) ==
    /\ \E s \in seeks, f \in flees :
          transforms = [e \in alive |->
                          ((SeekNpc :> s) @@ (FleeNpc :> f) @@ Spawned)[e]]
    /\ velocities = [e \in alive |-> Vec3_ZERO]
    /\ \E dt \in deltas : sched = [frame |-> 0, ran |-> {}, dt |-> dt]
    /\ lastS = [sys |-> "setup", seq |-> 0, before |-> [e \in alive |-> Vec3_ZERO]]

\* The steering program is a separate binary: beside the others it stays as
\* setup leaves it.
InitSteerSetup ==
    InitSteerWith({<<-100, NPC_Y, -100>>}, {<<50, NPC_Y, 50>>}, {1}, Entities)

\* The schedule lets system s run now: once a frame, the chained behaviors in
\* their order, the other two systems at any point of the frame.
CanRun(s) ==
    /\ sched.frame < MaxFrames
    /\ s \notin sched.ran
    /\ \A i \in 1..Len(BehaviorChain) :
          BehaviorChain[i] = s => \A j \in 1..(i - 1) : BehaviorChain[j] \in sched.ran

\* System s has run: the frame ends when every system has.
Ran(s) ==
    /\ IF sched.ran \cup {s} = Systems
       THEN \E dt \in DeltaSeconds :
               sched' = [frame |-> sched.frame + 1, ran |-> {}, dt |-> dt]
       ELSE sched' = [sched EXCEPT !.ran = @ \cup {s}]
    /\ lastS' = [sys |-> s, seq |-> lastS.seq + 1, before |-> velocities]

PlayerMovementSystem ==
    /\ CanRun("player_movement_system")
    /\ \E direction \in Directions :
          transforms' = player_movement_system(transforms, direction, sched.dt)
    /\ UNCHANGED velocities
    /\ Ran("player_movement_system")
    /\ UNCHANGED <<psoAll, qVars>>
SeekSystem ==
    /\ CanRun("seek_system")
    /\ velocities' = seek_system(transforms, velocities)
    /\ UNCHANGED transforms
    /\ Ran("seek_system")
    /\ UNCHANGED <<psoAll, qVars>>
FleeSystem ==
    /\ CanRun("flee_system")
    /\ velocities' = flee_system(transforms, velocities)
    /\ UNCHANGED transforms
    /\ Ran("flee_system")
    /\ UNCHANGED <<psoAll, qVars>>
ArriveSystem ==
    /\ CanRun("arrive_system")
    /\ velocities' = arrive_system(transforms, velocities)
    /\ UNCHANGED transforms
    /\ Ran("arrive_system")
    /\ UNCHANGED <<psoAll, qVars>>
WanderSystem ==
    /\ CanRun("wander_system")
    /\ \E heading \in WanderHeadings : velocities' = wander_system(velocities, heading)
    /\ UNCHANGED transforms
    /\ Ran("wander_system")
    /\ UNCHANGED <<psoAll, qVars>>
PursuitSystem ==
    /\ CanRun("pursuit_system")
    /\ velocities' = pursuit_system(transforms, velocities)
    /\ UNCHANGED transforms
    /\ Ran("pursuit_system")
    /\ UNCHANGED <<psoAll, qVars>>
EvadeSystem ==
    /\ CanRun("evade_system")
    /\ velocities' = evade_system(transforms, velocities)
    /\ UNCHANGED transforms
    /\ Ran("evade_system")
    /\ UNCHANGED <<psoAll, qVars>>
SeparationSystem ==
    /\ CanRun("separation_system")
    /\ velocities' = separation_system(transforms, velocities)
    /\ UNCHANGED transforms
    /\ Ran("separation_system")
    /\ UNCHANGED <<psoAll, qVars>>
ContainmentSystem ==
    /\ CanRun("containment_system")
    /\ velocities' = containment_system(transforms, velocities)
    /\ UNCHANGED transforms
    /\ Ran("containment_system")
    /\ UNCHANGED <<psoAll, qVars>>
MovementSystem ==
    /\ CanRun("movement_system")
    /\ \E out \in {movement_system(transforms, velocities, sched.dt)} :
          /\ transforms' = out[1]
          /\ velocities' = out[2]
    /\ Ran("movement_system")
    /\ UNCHANGED <<psoAll, qVars>>

NextSteer ==
    \/ PlayerMovementSystem
    \/ SeekSystem
    \/ FleeSystem
    \/ ArriveSystem
    \/ WanderSystem
    \/ PursuitSystem
    \/ EvadeSystem
    \/ SeparationSystem
    \/ ContainmentSystem
    \/ MovementSystem

(***************************************************************************)
(* The PSO app.  Every frame runs the systems; each action is one system   *)
(* with the inputs the frame's mouse, keyboard, clock and generator give.  *)
(***************************************************************************)
\* <<G just pressed, P just pressed, the clock window is open>>.
TickInputs == {<<TRUE, FALSE, FALSE>>, <<TRUE, TRUE, FALSE>>, <<FALSE, TRUE, FALSE>>,
               <<FALSE, FALSE, TRUE>>, <<FALSE, FALSE, FALSE>>}

\* The Q-learning program is a separate binary: its state stays as built.
QDraw == CHOOSE d \in EnvDraws : d.goal = <<GoalLow, GoalLow>>

MouseSetTarget ==
    /\ \E click \in Targets : mouse_set_target(click, InitPoints)
    /\ UNCHANGED <<qVars, steerVars, input>>
PsoTick ==
    /\ \E in \in TickInputs : pso_tick(in[1], in[2], in[3], RSample)
    /\ UNCHANGED <<qVars, steerVars, input>>
NewRandom ==
    /\ update_ui_sliders({"N"}, InitPoints)
    /\ UNCHANGED <<qVars, steerVars, input>>
FewerGenerations ==
    /\ update_ui_sliders({"Minus"}, InitPoints)
    /\ UNCHANGED <<qVars, steerVars, input>>

Next == MouseSetTarget \/ PsoTick \/ NewRandom \/ FewerGenerations

Init == InitPso /\ InitQWith({QDraw}) /\ InitSteerSetup

Spec == Init /\ [][Next]_vars

(***************************************************************************)
(* A long run on one target outside the domain, stepped with G, the        *)
(* inertia weight lowered with K, every draw 0.95.                         *)
(***************************************************************************)
LongGenerations == 7
LinePoints == {<<-PSO_DOMAIN, 0>>, <<0, 0>>}

InitPsoLong == InitPsoWith(LongGenerations, {24})

ClickOutside ==
    /\ mouse_set_target(<<PSO_DOMAIN + 1, 0>>, LinePoints)
    /\ UNCHANGED <<qVars, steerVars, input>>
SingleStep ==
    /\ pso_tick(TRUE, FALSE, FALSE, {19})
    /\ UNCHANGED <<qVars, steerVars, input>>
LowerInertia ==
    /\ update_ui_sliders({"K"}, LinePoints)
    /\ UNCHANGED <<qVars, steerVars, input>>

NextLong == ClickOutside \/ SingleStep \/ LowerInertia

InitLong == InitPsoLong /\ InitQWith({QDraw}) /\ InitSteerSetup

SpecPsoLong == InitLong /\ [][NextLong]_vars

(***************************************************************************)
(* A run whose generation limit is set with the - and = keys before its    *)
(* first step and left alone from then on.                                 *)
(***************************************************************************)
FewerBeforeRun ==
    /\ current_gen = 0
    /\ update_ui_sliders({"Minus"}, InitPoints)
    /\ UNCHANGED <<qVars, steerVars, input>>
MoreBeforeRun ==
    /\ current_gen = 0
    /\ params.generations < InitGenerations
    /\ update_ui_sliders({"Equals"}, InitPoints)
    /\ UNCHANGED <<qVars, steerVars, input>>
ClickTarget ==
    /\ \E click \in Targets : mouse_set_target(click, InitPoints)
    /\ UNCHANGED <<qVars, steerVars, input>>
RunTick ==
    /\ \E in \in TickInputs : pso_tick(in[1], in[2], in[3], {19})
    /\ UNCHANGED <<qVars, steerVars, input>>

NextRun == FewerBeforeRun \/ MoreBeforeRun \/ ClickTarget \/ RunTick

InitRun == InitPsoWith(InitGenerations, {12}) /\ InitQWith({QDraw}) /\ InitSteerSetup

SpecPsoRun == InitRun /\ [][NextRun]_vars

(***************************************************************************)
(* The frames of the PSO app.  A frame has one set of keys just pressed    *)
(* and at most one click; each system runs once in it, in any order, and   *)
(* reads the same keys.                                                    *)
(***************************************************************************)
KeySets == {{}, {"P"}, {"G"}}
Clicks == {None, <<(<<-1, -1>>)>>}
FramePoints == {<<-PSO_DOMAIN, 0>>}
C2Cap == 22

BeginFrame ==
    /\ input.ran = FrameSystems
    /\ \E keys \in KeySets, click \in Clicks :
          /\ "P" \in keys => params.c2 < C2Cap
          /\ input' = [keys |-> keys, click |-> click, ran |-> {},
                       params |-> params, paused |-> paused]
    /\ UNCHANGED <<psoVars, last>>
    /\ UNCHANGED <<qVars, steerVars>>

FrameRan(sys) ==
    /\ sys \notin input.ran
    /\ input' = [input EXCEPT !.ran = @ \cup {sys}]

MouseInFrame ==
    /\ FrameRan("mouse_set_target")
    /\ IF input.click # None
       THEN mouse_set_target(input.click[1], FramePoints)
       ELSE UNCHANGED <<psoVars, last>>
    /\ UNCHANGED <<qVars, steerVars>>
SlidersInFrame ==
    /\ FrameRan("update_ui_sliders")
    /\ update_ui_sliders(input.keys, FramePoints)
    /\ UNCHANGED <<qVars, steerVars>>
TickInFrame ==
    /\ FrameRan("pso_tick")
    /\ \E timer \in BOOLEAN :
          pso_tick("G" \in input.keys, "P" \in input.keys, timer, {19})
    /\ UNCHANGED <<qVars, steerVars>>

NextFrame == BeginFrame \/ MouseInFrame \/ SlidersInFrame \/ TickInFrame

InitFrame == InitPsoWith(InitGenerations, {12}) /\ InitQWith({QDraw}) /\ InitSteerSetup

SpecPsoFrame == InitFrame /\ [][NextFrame]_vars

(***************************************************************************)
(* PSO: properties                                                         *)
(***************************************************************************)
Stepped == last.sys = "pso_tick" /\ last.path = "step"
SteppedNext == last'.sys = "pso_tick" /\ last'.path = "step"

DistLe(a, b) == a # DistNaN /\ b # DistNaN /\ a <= b

\* The least of a non-empty set of distances, none of them NaN.
MinOf(S) == CHOOSE m \in S : \A d \in S : m <= d

MinPbest(ps) == MinOf({ps[i].pbest_val : i \in 1..Len(ps)})

\* The least distance to the goal over the particles that have one; +inf if none has.
MinDist(ps, goal) ==
    MinOf({INFINITY} \cup
          ({Length(ps[i].target_position, goal) : i \in 1..Len(ps)} \ {DistNaN}))

\* C1: an executed step of pso_tick leaves every particle's personal_best_value
\* less than or equal to what it was before the step.
C1_PbestNeverIncreases ==
    [][SteppedNext =>
        /\ Len(particles') = Len(particles)
        /\ \A i \in 1..Len(particles) :
              DistLe(particles'[i].pbest_val, particles[i].pbest_val)]_vars

C1_Witness ==
    /\ Stepped
    /\ current_gen >= 2
    /\ \E i \in 1..Len(particles) :
          particles[i].pbest_pos # particles[i].target_position

\* C2: after every executed step global_best_value is the minimum of
\* personal_best_value over the particles, on any step and not only the first.
C2_GbestIsMinPbest == Stepped => gbest_val = MinPbest(particles)

\* C3: after initialization and after every step both components of every
\* particle's target_position lie within [-DOMAIN, DOMAIN].
C3_PositionInDomain ==
    \A i \in 1..Len(particles) : \A c \in 1..2 :
        /\ ~IsNaN(particles[i].target_position[c])
        /\ -PSO_DOMAIN <= particles[i].target_position[c]
        /\ particles[i].target_position[c] <= PSO_DOMAIN

\* C4: with no target set, or with the swarm converged, a run of pso_tick changes
\* nothing of the swarm state, whatever keys are pressed.
C4_TickIdleIsNoOp ==
    [][(last'.sys = "pso_tick" /\ (target = None \/ converged)) =>
        UNCHANGED psoVars]_vars

C4_Witness == last.sys = "pso_tick" /\ last.path = "idle" /\ converged

\* C5: setting a target leaves generation 0, global best +inf, converged false and
\* a fresh population of params.population particles with zero velocity, personal
\* best +inf and personal-best position equal to the particle's own position.
C5_SetTargetResets ==
    (last.sys = "mouse_set_target" /\ last.path = "set") =>
        /\ target # None
        /\ current_gen = 0
        /\ gbest_val = INFINITY
        /\ ~converged
        /\ Len(particles) = params.population
        /\ \A i \in 1..Len(particles) :
              /\ particles[i].velocity = ZERO
              /\ particles[i].pbest_val = INFINITY
              /\ particles[i].pbest_pos = particles[i].target_position
              /\ particles[i].position = particles[i].target_position

\* A target set over a swarm that had already run: gbest_pos still holds its result.
C5_Witness ==
    last.sys = "mouse_set_target" /\ last.path = "set" /\ gbest_pos # ZERO

\* C6: an executed step sets converged, and pauses, exactly when the incremented
\* generation count has reached params.generations or the step's global best is
\* below the convergence threshold; otherwise converged stays false.
C6_ConvergedIff ==
    [][SteppedNext =>
        /\ converged' <=> (current_gen' >= params.generations
                           \/ DistLt(gbest_val', THRESHOLD_SQ))
        /\ converged' => paused']_vars

C6_WitnessThreshold == Stepped /\ converged /\ current_gen < params.generations
C6_WitnessRunning == Stepped /\ ~converged /\ ~paused

\* C27: whenever the swarm is converged it is paused, whatever ticks, target
\* clicks, resets and presses of G and P came before.
C27_ConvergedIsPaused == converged => paused

\* A tick, with or without G and P pressed, found the swarm converged.
C27_Witness == converged /\ paused /\ last.sys = "pso_tick" /\ last.path = "idle"

\* C28: with the parameters left alone once the run has begun, the generation
\* count never exceeds the generations parameter, whatever value the - and =
\* keys gave it.
C28_GenerationWithinMax == current_gen <= params.generations

\* The same for a generations parameter of at least 1.
C28_WithinMaxFromOne == params.generations >= 1 => current_gen <= params.generations

\* C29: a frame in which P was pressed, and no other key, ends with the
\* parameters it began with.
C29_PauseKeyLeavesParams ==
    (input.ran = FrameSystems /\ input.keys = {"P"}) => params = input.params

\* In such a frame P changes nothing but c2, and paused where pso_tick did not
\* return early.
C29_PauseKeyRaisesC2 ==
    (input.ran = FrameSystems /\ input.keys = {"P"}) =>
        params = [input.params EXCEPT !.c2 = @ + 1]

\* C7, positions after the step: after every executed step global_best_value is
\* the least distance between a particle's position, as it is after that step,
\* and the target.
C7_GbestIsMinDistAfter == Stepped => gbest_val = MinDist(particles, target)

\* C7, positions before the step: after every executed step global_best_value is
\* the least distance between the target and the position a particle had when
\* the step began, before the step moved it (+inf when no particle has one).
C7_GbestIsMinDistBefore ==
    [][SteppedNext => gbest_val' = MinDist(particles, target)]_vars

C7_Witness ==
    Stepped /\ gbest_val # INFINITY /\ gbest_val # MinDist(particles, target)


(***************************************************************************)
(* The Q-learning program up to the end of training.  Each action is one   *)
(* iteration of the inner loop with the draws the generator gives.         *)
(***************************************************************************)
Train ==
    /\ \E random_value \in RandomValues, index \in Indexes :
           TrainStep(random_value, index)
    /\ UNCHANGED <<psoAll, steerVars>>

NextQ == Train

\* The PSO app is a separate binary: its state stays as built.
InitTrain == InitPsoWith(InitGenerations, {12}) /\ InitQ /\ InitSteerSetup

SpecQ == InitTrain /\ [][NextQ]_vars

(***************************************************************************)
(* The Q-learning program from training to the replay app.  Training draws *)
(* are a greedy one and two exploring ones (Down, Right); every frame of   *)
(* the app runs the systems, each action is one system with the inputs the *)
(* frame's keyboard, clock and generator give.                             *)
(***************************************************************************)
ReplayTrainDraws == {<<50, 0>>, <<0, 1>>}
StageKeys == {0, 1}
AnimDeltas == {5, 15}

TrainSome ==
    /\ \E d \in ReplayTrainDraws : TrainStep(d[1], d[2])
    /\ UNCHANGED <<psoAll, steerVars>>
Setup ==
    /\ \E draws \in RolloutDrawSeqs : setup(draws)
    /\ UNCHANGED <<psoAll, steerVars>>
MoveAgent ==
    /\ \E near \in BOOLEAN : move_agent_system(near)
    /\ UNCHANGED <<psoAll, steerVars>>
Animate ==
    /\ \E delta \in AnimDeltas : animate_agent_system(delta)
    /\ UNCHANGED <<psoAll, steerVars>>
SelectStage ==
    /\ \E stage_selected \in StageKeys, draws \in RolloutDrawSeqs :
           keyboard_input_system(Some(stage_selected), FALSE, draws)
    /\ UNCHANGED <<psoAll, steerVars>>
PressSpace ==
    /\ keyboard_input_system(None, TRUE, <<>>)
    /\ UNCHANGED <<psoAll, steerVars>>

NextReplay == TrainSome \/ Setup \/ MoveAgent \/ Animate \/ SelectStage \/ PressSpace

SpecReplay == InitTrain /\ [][NextReplay]_vars

(***************************************************************************)
(* Q-learning: properties                                                  *)
(***************************************************************************)
\* The greatest of the four values the table gives a state.
MaxQ(table, s) ==
    CHOOSE v \in {get_q_value(table, s, a) : a \in Actions} :
        \A a \in Actions : get_q_value(table, s, a) <= v

\* C8: an update of (state, action) with done = true stores
\* old + learning_rate * (reward - old), whatever the next state's entries are;
\* with done = false it stores
\* old + learning_rate * (reward + discount_factor * max - old), max the
\* greatest of the next state's four values, missing entries counting as 0.
C8_UpdateRule ==
    [][lastQ' # lastQ =>
        LET t == lastQ'
            old == get_q_value(q_table, t.state, t.action)
            new == q_table'[<<t.state, t.action>>]
        IN /\ t.done =>
                new = old + TimesLearningRate(t.reward - old)
           /\ ~t.done =>
                new = old + TimesLearningRate(
                          t.reward + TimesDiscountFactor(MaxQ(q_table, t.next_state))
                          - old)
           /\ \A k \in DOMAIN q_table \ {<<t.state, t.action>>} :
                k \in DOMAIN q_table' /\ q_table'[k] = q_table[k]]_vars

\* A terminal update whose next state has a non-zero greatest value, so that
\* bootstrapping would have changed the stored value.
C8_Witness ==
    /\ lastQ.done
    /\ \E a \in Actions : <<lastQ.next_state, a>> \in DOMAIN q_table
    /\ TimesDiscountFactor(MaxQ(q_table, lastQ.next_state)) # 0

\* The cell the action points at, kept inside the grid.
TargetCell(s, a) ==
    LET dx == IF a = "Right" THEN 1 ELSE IF a = "Left" THEN -1 ELSE 0
        dy == IF a = "Down" THEN 1 ELSE IF a = "Up" THEN -1 ELSE 0
    IN [x |-> Max(0, Min(MAP_SIZE - 1, s.x + dx)),
        y |-> Max(0, Min(MAP_SIZE - 1, s.y + dy))]

Abs(n) == IF n < 0 THEN -n ELSE n

\* C9: for every state and action, if the bounds-clamped target cell is a Wall,
\* step returns the state unchanged with hit_wall true; otherwise hit_wall is
\* false and next_state is inside the grid and differs from the state by at
\* most one unit on exactly one axis.
C9_StepWalls ==
    \A s \in States, a \in Actions :
        LET r == step(env, s, a)
            t == TargetCell(s, a)
        IN IF env.map[t.y][t.x] = "Wall"
           THEN r.next_state = s /\ r.hit_wall
           ELSE /\ ~r.hit_wall
                /\ r.next_state \in States
                /\ Abs(r.next_state.x - s.x) + Abs(r.next_state.y - s.y) <= 1

\* The training loop has stepped into a wall, and has made a move.
C9_Witness ==
    /\ lastQ.hit_wall
    /\ lastQ.next_state = lastQ.state
    /\ env.map[TargetCell(lastQ.state, lastQ.action).y]
              [TargetCell(lastQ.state, lastQ.action).x] = "Wall"
    /\ lastQ.state # env.start

\* The first action, in the order Up, Down, Left, Right, whose value is the
\* greatest of the four.
FirstBest(table, s) ==
    LET i == CHOOSE i \in 1..Len(Action_all) :
                 /\ get_q_value(table, s, Action_all[i]) = MaxQ(table, s)
                 /\ \A j \in 1..(i - 1) :
                        get_q_value(table, s, Action_all[j]) # MaxQ(table, s)
    IN Action_all[i]

\* C10: with epsilon = 0, choose_action returns for every state the action of
\* the highest Q-value, ties broken in favour of the first of Up, Down, Left,
\* Right, whatever the generator draws.
C10_GreedyFirstBest ==
    \A s \in States, random_value \in RandomValues, index \in Indexes :
        choose_action(q_table, 0, s, random_value, index) = FirstBest(q_table, s)

\* A table with a state whose greatest value is shared by several actions, Up
\* not among them, and a state whose single greatest value is at Right.
C10_Witness ==
    /\ \E s \in States :
          /\ get_q_value(q_table, s, "Up") < MaxQ(q_table, s)
          /\ Cardinality({a \in Actions :
                 get_q_value(q_table, s, a) = MaxQ(q_table, s)}) >= 2
    /\ \E s \in States :
          \A a \in Actions \ {"Right"} :
              get_q_value(q_table, s, a) < get_q_value(q_table, s, "Right")


(***************************************************************************)
(* Environment::new, one draw of a scatter loop at a time.  The loops draw *)
(* WALL_DRAWS, T1_DRAWS, T2_DRAWS and T3_DRAWS cells.                      *)
(***************************************************************************)
\* gen_range(7..MAP_SIZE): the last three rows and columns.
GoalRange == GoalLow..(MAP_SIZE - 1)

\* Sample of gen_range(0..MAP_SIZE) twice: the start, cells a goal can be on,
\* and cells only a scatter can fill.
ScatterCells == {<<0, 0>>, <<GoalLow, GoalLow>>, <<MAP_SIZE - 1, MAP_SIZE - 1>>,
                 <<1, 0>>, <<0, MAP_SIZE - 1>>}

InitBuild ==
    /\ InitPsoWith(InitGenerations, {12})
    /\ InitSteerSetup
    /\ env \in {EnvironmentBase(g) : g \in GoalRange \X GoalRange}
    /\ build = [phase |-> 1, i |-> 0]
    /\ q_table = EmptyTable
    /\ episode = 0
    /\ step_no = 0
    /\ state = env.start
    /\ hp = MAX_HP
    /\ qpc = "building"
    /\ lastQ = NoTransition
    /\ snapshots = << <<0, EmptyTable>> >>
    /\ snapshot_index = 1
    /\ boundary = << EmptyTable >>
    /\ progress = [current_snapshot |-> InitialSnapshot, epsilon_for_display |-> 0]
    /\ agent = None
    /\ rolled = None
    /\ stats = NoStats
    /\ lastR = [sys |-> "main", path |-> "init"]

\* One iteration of the scatter loop Environment::new is in, drawing <<x, y>>.
ScatterStep(x, y) ==
    /\ build # Built
    /\ env' = [env EXCEPT !.map =
                  Scatter(env.map, << <<x, y>> >>, ScatterLoops[build.phase][1], 1)]
    /\ build' = IF build.i + 1 < ScatterLoops[build.phase][2]
                THEN [build EXCEPT !.i = @ + 1]
                ELSE IF build.phase < Len(ScatterLoops)
                THEN [phase |-> build.phase + 1, i |-> 0]
                ELSE Built
    /\ UNCHANGED <<q_table, episode, step_no, state, hp, lastQ, snapshots,
                   snapshot_index, boundary, qpc, replayVars, lastR>>

ScatterDraw ==
    /\ \E c \in ScatterCells : ScatterStep(c[1], c[2])
    /\ UNCHANGED <<psoAll, steerVars>>

NextBuild == ScatterDraw

SpecEnv == InitBuild /\ [][NextBuild]_vars

CountCells(cell) ==
    Cardinality({c \in Coords \X Coords : env.map[c[2]][c[1]] = cell})

\* C16: every environment Environment::new builds has exactly one Start cell, at
\* env.start, exactly one Goal cell, at env.goal, and at most WALL_DRAWS Wall,
\* T1_DRAWS T1, T2_DRAWS T2 and T3_DRAWS T3 cells.
C16_OneStartOneGoal ==
    /\ CountCells("Start") = 1
    /\ env.map[env.start.y][env.start.x] = "Start"
    /\ CountCells("Goal") = 1
    /\ env.map[env.goal.y][env.goal.x] = "Goal"
    /\ CountCells("Wall") <= WALL_DRAWS
    /\ CountCells("T1") <= T1_DRAWS
    /\ CountCells("T2") <= T2_DRAWS
    /\ CountCells("T3") <= T3_DRAWS

\* A finished environment whose scatter drew occupied cells.
C16_Witness ==
    /\ build = Built
    /\ qpc = "building"
    /\ CountCells("Wall") < WALL_DRAWS
    /\ CountCells("Wall") + CountCells("T1") + CountCells("T2") + CountCells("T3")
          = Cardinality(ScatterCells) - 2

(***************************************************************************)
(* Q-learning: properties of rollout, snapshots and health                 *)
(***************************************************************************)
RolledOut == lastR.path \in {"spawn", "stage"}
RolledOutNext == lastR'.path \in {"spawn", "stage"}

\* The health a rollout had at the i-th state of its path.
HpAt(roll, i) == IF i = 1 THEN MAX_HP ELSE roll.hps[i - 1]

\* C11, cap of 500 states: the path a rollout returns never holds more than
\* PATH_CAP states.
C11_PathWithinCap == RolledOut => Len(lastR.roll.path) <= PATH_CAP

\* C11, cap exceeded by one: a rollout returns; its path never holds more than
\* PATH_CAP + 1 states, begins with the start state, holds no terminal state
\* before its last, and ends in a terminal state whenever it holds at most
\* PATH_CAP states.
C11_PathEndsAtTerminalOrCap ==
    RolledOut =>
        LET roll == lastR.roll
            n == Len(roll.path)
        IN /\ n >= 1 /\ n <= PATH_CAP + 1
           /\ roll.path[1] = env.start
           /\ \A i \in 1..(n - 1) : ~is_terminal(env, roll.path[i], HpAt(roll, i))
           /\ n <= PATH_CAP => is_terminal(env, roll.path[n], HpAt(roll, n))

\* A rollout stopped by the cap, and the path it left to the agent.
C11_Witness ==
    /\ RolledOut
    /\ Len(lastR.roll.path) = PATH_CAP + 1
    /\ ~is_terminal(env, lastR.roll.path[PATH_CAP + 1], lastR.roll.hp)
    /\ agent.path = lastR.roll.path

\* C13: a lookup returns the stored value, or 0 for a pair never updated, and
\* adds no key; an update inserts exactly the updated pair and leaves every
\* other entry as it was.
C13_LookupDefault ==
    [][lastQ' # lastQ =>
        LET key == <<lastQ'.state, lastQ'.action>>
        IN /\ DOMAIN q_table' = DOMAIN q_table \cup {key}
           /\ \A s \in States, a \in Actions :
                 /\ <<s, a>> \notin DOMAIN q_table =>
                        get_q_value(q_table, s, a) = 0
                 /\ <<s, a>> \in DOMAIN q_table =>
                        get_q_value(q_table, s, a) = q_table[<<s, a>>]
                 /\ <<s, a>> # key =>
                        get_q_value(q_table', s, a) = get_q_value(q_table, s, a)]_vars

\* A non-terminal update has read the four values of a next state of which the
\* table holds at most the pair just updated.
C13_Witness ==
    /\ lastQ # NoTransition
    /\ ~lastQ.done
    /\ \A a \in Actions :
          <<lastQ.next_state, a>> \in DOMAIN q_table =>
              <<lastQ.next_state, a>> = <<lastQ.state, lastQ.action>>
    /\ Cardinality(DOMAIN q_table) >= 2

\* C14: every snapshot holds the live table as it was at the episode boundary of
\* the snapshot, whatever training did to the live table since; a rollout on a
\* snapshot changes neither the snapshots nor the live table.
C14_SnapshotsIndependent ==
    [][/\ \A i \in 1..Len(snapshots') :
             snapshots'[i][2] = boundary'[snapshots'[i][1] + 1]
       /\ \A i \in 1..Len(snapshots) :
             i <= Len(snapshots') /\ snapshots'[i] = snapshots[i]
       /\ RolledOutNext => snapshots' = snapshots /\ q_table' = q_table]_vars

\* A rollout on a non-empty snapshot that differs from the live table.
C14_Witness ==
    /\ lastR.path = "stage"
    /\ lastR.table # EmptyTable
    /\ lastR.table # q_table
    /\ lastR.table = snapshots[progress.current_snapshot + 1][2]

\* C15, restart included: across training steps, rollout steps, replay ticks
\* and a replay restart the health of an existing agent never increases.
C15_HealthNeverIncreases ==
    [][(agent # None /\ agent' # None /\ lastR'.path # "stage") =>
           agent'.hp <= agent.hp]_vars

\* C15, restart apart: health starts at MAX_HP; within a training episode it
\* changes by the damage step returned, along a rollout it never increases, a
\* replay tick lowers it only on arriving in a trap cell from another cell, by
\* that trap's damage; a replay restart sets it back to MAX_HP.
C15_HealthChanges ==
    [][/\ lastQ' # lastQ =>
             /\ lastQ'.hp_damage >= 0
             /\ \/ hp' = hp - lastQ'.hp_damage
                \/ hp' = MAX_HP /\ episode' = episode + 1
       /\ RolledOutNext =>
             /\ agent'.hp = MAX_HP
             /\ \A i \in 1..Len(lastR'.roll.hps) :
                   lastR'.roll.hps[i] <= HpAt(lastR'.roll, i)
       /\ lastR'.path = "restart" => agent'.hp = MAX_HP
       /\ (agent # None /\ lastR'.sys \in {"move_agent_system", "animate_agent_system"}) =>
             /\ agent'.hp <= agent.hp
             /\ agent'.hp # agent.hp =>
                   LET from == agent.path[agent.current_index + 1]
                       to == agent.path[agent.current_index + 2]
                   IN /\ lastR'.path = "arrive"
                      /\ to # from
                      /\ env.map[to.y][to.x] \in {"T1", "T2", "T3"}
                      /\ agent.hp - agent'.hp = get_hp_damage(env, to)]_vars

\* A restart of an agent that a trap had damaged.
C15_Witness ==
    /\ lastR.path = "restart"
    /\ agent.hp = MAX_HP
    /\ \E i \in 2..Len(agent.path) :
          /\ agent.path[i] # agent.path[i - 1]
          /\ get_hp_damage(env, agent.path[i]) > 0

\* The damage of a cell type.
Tier(cell) ==
    IF cell = "T1" THEN 25 ELSE IF cell = "T2" THEN 50
    ELSE IF cell = "T3" THEN 100 ELSE 0

\* C17: the damage step returns is the damage tier of the bounds-clamped cell the
\* action points at, before any wall revert; 0 when that cell is a Wall.
C17_DamageOfTargetCell ==
    lastQ # NoTransition =>
        LET t == TargetCell(lastQ.state, lastQ.action)
        IN lastQ.hp_damage = Tier(env.map[t.y][t.x])

(***************************************************************************)
(* Q-learning replay: properties of the path, the health and the counters  *)
(***************************************************************************)
Restarts == lastR'.sys = "keyboard_input_system" /\ lastR'.path = "restart"

\* C23, three fields only: a restart changes nothing of the agent but
\* current_index, finished and the health.
C23_RestartOnlyThree ==
    [][Restarts =>
          agent' = [agent EXCEPT !.current_index = 0, !.finished = FALSE,
                                 !.hp = MAX_HP]]_vars

\* C23, with the animation and the statistics: the path of an agent is the
\* one its rollout returned when the agent was spawned; no replay tick and no
\* restart changes it; a restart sets current_index to 0, finished to false,
\* the health to the maximum, clears the animation timer and type and
\* resets the statistics.
C23_PathComputedOnce ==
    [][/\ RolledOutNext => agent'.path = lastR'.roll.path /\ rolled' = lastR'.roll
       /\ (agent # None /\ ~RolledOutNext) => agent'.path = agent.path
       /\ Restarts =>
             /\ agent' = [agent EXCEPT !.current_index = 0, !.finished = FALSE,
                                       !.hp = MAX_HP, !.animation_timer = 0,
                                       !.animation_type = "None"]
             /\ stats' = NoStats]_vars

\* A restart of an agent whose path holds more than one state and a trap.
C23_Witness ==
    /\ lastR.sys = "keyboard_input_system" /\ lastR.path = "restart"
    /\ agent.path = rolled.path
    /\ Len(agent.path) > 2
    /\ \E i \in 2..Len(agent.path) : get_hp_damage(env, agent.path[i]) > 0

NotWall(s) == env.map[s.y][s.x] # "Wall"

\* C24: in training and in every rollout the agent's state is never a Wall
\* cell, and the reward passed to update is never the Wall reward.
C24_NeverOnWall ==
    /\ NotWall(state)
    /\ lastQ # NoTransition =>
          /\ NotWall(lastQ.state)
          /\ NotWall(lastQ.next_state)
          /\ lastQ.reward # -10 * Q_SCALE
    /\ rolled # None => \A i \in 1..Len(rolled.path) : NotWall(rolled.path[i])

\* Training ended on a move into a Wall and a rollout made one too.
C24_Witness ==
    /\ lastQ # NoTransition /\ lastQ.hit_wall
    /\ rolled # None
    /\ \E i \in 1..Len(rolled.walls) : rolled.walls[i]

\* C25: after the replay agent has played i transitions of its path its
\* health is the health the rollout had after the same i transitions.
C25_ReplayHealthMatchesRollout ==
    agent # None => agent.hp = HpAt(rolled, agent.current_index + 1)

\* C26: a replay tick that plays a transition counts a wall hit exactly when
\* step had reported hit_wall for that transition in the rollout.
C26_WallHitsIffHitWall ==
    [][(agent # None /\ lastR'.sys = "move_agent_system" /\ lastR'.path = "arrive") =>
          ((stats'.wall_hits = stats.wall_hits + 1)
              <=> rolled.walls[agent.current_index + 1])]_vars

(***************************************************************************)
(* The steering app: every frame runs each system once.                    *)
(***************************************************************************)
InitSteering ==
    /\ InitPsoWith(InitGenerations, {12})
    /\ InitQWith({QDraw})
    /\ InitSteerWith(SeekStarts, FleeStarts, DeltaSeconds, Entities)

SpecSteer == InitSteering /\ [][NextSteer]_vars

\* The same frames in a world whose player entity is gone: every target
\* reference of the NPCs then names no entity.
InitSteerLost ==
    /\ InitPsoWith(InitGenerations, {12})
    /\ InitQWith({QDraw})
    /\ InitSteerWith(SeekStarts, FleeStarts, DeltaSeconds, Entities \ Player)

SpecSteerLost == InitSteerLost /\ [][NextSteer]_vars

(***************************************************************************)
(* Steering: properties                                                    *)
(***************************************************************************)
SystemRuns(s) == lastS'.seq # lastS.seq /\ lastS'.sys = s
WithinLength(v, len) == length_squared(v) <= len * len

\* C18: right after movement_system has run, every agent's velocity is no
\* longer than the agent's max_speed, whatever the behaviors had made it.
C18_SpeedClamped ==
    [][SystemRuns("movement_system") =>
          \A e \in DOMAIN Agents :
              WithinLength(velocities'[e], Agents[e].max_speed)]_vars

\* movement_system has just cut down a velocity that was over max_speed.
C18_Witness ==
    /\ lastS.sys = "movement_system"
    /\ \E e \in DOMAIN Agents :
          /\ ~WithinLength(lastS.before[e], Agents[e].max_speed)
          /\ velocities[e] # Vec3_ZERO

\* C19: the vector seek_system adds to an agent's velocity is no longer than
\* the agent's max_force; so is the vector seek gives for the same velocity
\* when the target is at the agent's own position.
C19_SeekForceBounded ==
    [][SystemRuns("seek_system") =>
          \A e \in DOMAIN Seek :
              /\ WithinLength(V3Sub(velocities'[e], velocities[e]), Agents[e].max_force)
              /\ WithinLength(seek_steering(transforms[e], velocities[e],
                                            transforms[e], Agents[e]),
                              Agents[e].max_force)]_vars

\* seek_system has just run for an agent whose unclamped steering was longer
\* than max_force, and for whom seeking its own position is too.
C19_Witness ==
    /\ lastS.sys = "seek_system"
    /\ \E e \in DOMAIN Seek :
          /\ ~WithinLength(SeekUnclamped(transforms[e], lastS.before[e],
                                         transforms[Seek[e].target], Agents[e]),
                           Agents[e].max_force)
          /\ ~WithinLength(SeekUnclamped(transforms[e], lastS.before[e],
                                         transforms[e], Agents[e]),
                           Agents[e].max_force)
          /\ velocities[e] # lastS.before[e]

\* The squared distance of the two agents.
PairDistanceSq == length_squared(V3Sub(transforms[SeekNpc], transforms[FleeNpc]))

\* C20: separation_system changes the velocities of the pair only when their
\* distance is strictly between 0 and DESIRED_SEPARATION; then the first is
\* pushed away from the second and the second the opposite way, the two
\* pushes in the ratio of the agents' max_force (up to rounding).
C20_Separation ==
    [][SystemRuns("separation_system") =>
          LET d == V3Sub(transforms[SeekNpc], transforms[FleeNpc])
              p1 == V3Sub(velocities'[SeekNpc], velocities[SeekNpc])
              p2 == V3Sub(velocities'[FleeNpc], velocities[FleeNpc])
              f1 == Agents[SeekNpc].max_force
              f2 == Agents[FleeNpc].max_force
          IN  /\ transforms' = transforms
              /\ velocities'[PlayerEntity] = velocities[PlayerEntity]
              /\ (PairDistanceSq = 0
                   \/ PairDistanceSq >= DESIRED_SEPARATION * DESIRED_SEPARATION)
                      => velocities' = velocities
              /\ (PairDistanceSq > 0
                   /\ PairDistanceSq < DESIRED_SEPARATION * DESIRED_SEPARATION)
                      => /\ p1 # Vec3_ZERO /\ p2 # Vec3_ZERO
                         /\ \A i \in 1..3 :
                               /\ p1[i] * d[i] >= 0
                               /\ p2[i] * d[i] <= 0
                               /\ 2 * Abs(p1[i] * f2 + p2[i] * f1) <= f1 + f2]_vars

\* separation_system has just run on two agents exactly DESIRED_SEPARATION
\* apart, on neither axis alone.
C20_Witness ==
    /\ lastS.sys = "separation_system"
    /\ PairDistanceSq = DESIRED_SEPARATION * DESIRED_SEPARATION
    /\ transforms[SeekNpc][1] # transforms[FleeNpc][1]
    /\ transforms[SeekNpc][3] # transforms[FleeNpc][3]

\* separation_system has just pushed two close agents apart.
C20_Pushed ==
    /\ lastS.sys = "separation_system"
    /\ PairDistanceSq > 0
    /\ PairDistanceSq < DESIRED_SEPARATION * DESIRED_SEPARATION
    /\ velocities[SeekNpc] # lastS.before[SeekNpc]

\* C22: in every frame a behavior system runs only while movement_system has
\* not yet run in that frame, so no behavior writes a velocity after the
\* frame's clamp-and-integrate.
C22_BehaviorsBeforeMovement ==
    [][\A i \in 1..Len(BehaviorChain) :
          SystemRuns(BehaviorChain[i]) => "movement_system" \notin sched.ran]_vars

\* When every behavior precedes movement_system, the velocities a frame ends
\* with are within max_speed.
C22_FrameEndsClamped ==
    [][sched'.frame # sched.frame =>
          \A e \in DOMAIN Agents :
              WithinLength(velocities'[e], Agents[e].max_speed)]_vars

\* C30: the Player's velocity is the zero vector before and after every
\* step; so what pursuit_system adds to its agent is seek's steering toward
\* the target's present position, and what evade_system adds is flee's
\* steering away from it.
C30_PlayerAtRestPursuitIsSeek ==
    [][/\ velocities[PlayerEntity] = Vec3_ZERO
       /\ velocities'[PlayerEntity] = Vec3_ZERO
       /\ SystemRuns("pursuit_system") =>
             \A e \in DOMAIN Pursuit :
                 /\ future_position(transforms[e], velocities[e],
                                    transforms[Pursuit[e].target],
                                    velocities[Pursuit[e].target], Agents[e])
                      = transforms[Pursuit[e].target]
                 /\ velocities'[e] =
                      V3Add(velocities[e],
                            seek_steering(transforms[e], velocities[e],
                                          transforms[Pursuit[e].target], Agents[e]))
       /\ SystemRuns("evade_system") =>
             \A e \in DOMAIN Evade :
                 /\ future_position(transforms[e], velocities[e],
                                    transforms[Evade[e].target],
                                    velocities[Evade[e].target], Agents[e])
                      = transforms[Evade[e].target]
                 /\ velocities'[e] =
                      V3Add(velocities[e],
                            flee_steering(transforms[e], velocities[e],
                                          transforms[Evade[e].target], Agents[e]))]_vars

\* evade_system has just steered an agent that was already moving, in a frame
\* after the player has moved from its start and the pursuer has been steered
\* while moving too.
C30_Witness ==
    /\ lastS.sys = "evade_system"
    /\ sched.frame >= 1
    /\ transforms[PlayerEntity] # PlayerStart
    /\ lastS.before[EvadeNpc] # Vec3_ZERO
    /\ lastS.before[PursuitNpc] # Vec3_ZERO
    /\ velocities[EvadeNpc] # lastS.before[EvadeNpc]
    /\ velocities[PursuitNpc] # Vec3_ZERO

\* The behaviors that steer by a target, each with its component.
Targeting == [seek_system |-> Seek, flee_system |-> Flee, arrive_system |-> Arrive,
              pursuit_system |-> Pursuit, evade_system |-> Evade]

\* C21: when seek, flee, arrive, pursuit or evade runs for an agent whose
\* target names no entity, the agent's velocity stays as it was and nothing
\* else changes; the systems after it still run: wander, separation and
\* containment in their turn, and movement_system, which still clamps the
\* agent's velocity and moves the agent by it.
C21_MissingTargetLeavesVelocity ==
    [][/\ \A b \in DOMAIN Targeting :
             SystemRuns(b) =>
                /\ transforms' = transforms
                /\ ("movement_system" \notin sched.ran => CanRun("movement_system")')
                /\ \A e \in DOMAIN Targeting[b] :
                      Targeting[b][e].target \notin DOMAIN transforms
                         => velocities'[e] = velocities[e]
       /\ \A i \in 1..(Len(BehaviorChain) - 1) :
             SystemRuns(BehaviorChain[i]) => CanRun(BehaviorChain[i + 1])'
       /\ SystemRuns("movement_system") =>
             \A e \in DOMAIN Agents :
                 /\ velocities'[e] = clamp_length_max(velocities[e], Agents[e].max_speed)
                 /\ transforms'[e][1] =
                      transforms[e][1] + TimesDelta(velocities'[e], sched.dt)[1]
                 /\ transforms'[e][3] =
                      transforms[e][3] + TimesDelta(velocities'[e], sched.dt)[3]]_vars

\* In a world without the player, seek_system has just run for an agent that
\* was moving, in a frame after movement_system has carried the agent away
\* from where it started.
C21_Witness ==
    /\ PlayerEntity \notin DOMAIN transforms
    /\ lastS.sys = "seek_system"
    /\ sched.frame >= 1
    /\ velocities[SeekNpc] # Vec3_ZERO
    /\ transforms[SeekNpc] \notin SeekStarts

====
